---------------------------- MODULE Spec2Model ----------------------------
(***************************************************************************)
(* Model of the smart-reply service (app/services/reply_service.py).       *)
(*                                                                         *)
(* One SmartReplyService instance lives for the whole process.  The        *)
(* lifespan handler (app/main.py) awaits initialize() before the first     *)
(* request is routed; afterwards the two request handlers                  *)
(* generate_replies and get_quick_replies are called.  Neither handler     *)
(* contains a real suspension point, so each one is a single step.         *)
(*                                                                         *)
(* Texts are sequences of lexical tokens (a word, or a run of punctuation  *)
(* and blanks); adjacent word tokens would fuse into one word, which the   *)
(* word-boundary test below accounts for.  Confidences are IEEE doubles;   *)
(* a double is encoded as an integer that preserves order and equality     *)
(* (see FloatMinusTenths).  Requests carry the default tone PROFESSIONAL,  *)
(* for which _adjust_for_tone takes neither rewriting branch, so a         *)
(* template suggestion's text is the template itself.                      *)
(***************************************************************************)
EXTENDS Integers, Sequences, FiniteSets, TLC

VARIABLES
    phase,                  \* lifespan position: "startup" or "serving"
    initialized,            \* SmartReplyService.initialized
    model,                  \* SmartReplyService.model: "None" or "loaded"
    tokenizer,              \* SmartReplyService.tokenizer: "None" or "loaded"
    quick_reply_templates,  \* SmartReplyService.quick_reply_templates
    intent_patterns,        \* SmartReplyService.intent_patterns
    init_calls,             \* number of initialize() calls made so far
    op,                     \* handler whose response is pending delivery
    request,                \* the request of that handler
    response,               \* what the handler returned (or raised)
    generate_invoked,       \* did the handler call model.generate
    ml_failure,             \* where _generate_ml_replies caught a failure
    ml_suggestions,         \* what _generate_ml_replies returned
    reply_lengths,          \* len(reply_text) of each output it decoded
    quick_replies,          \* what _get_quick_replies contributed
    collected               \* suggestions before sorting and truncation

vars == <<phase, initialized, model, tokenizer, quick_reply_templates,
          intent_patterns, init_calls, op, request, response,
          generate_invoked, ml_failure, ml_suggestions, reply_lengths,
          quick_replies, collected>>

service == <<initialized, model, tokenizer, quick_reply_templates,
             intent_patterns, init_calls>>

-----------------------------------------------------------------------------
(* Bounds of the exploration *)

\* messages a request may carry beyond the context window
MaxOlder == 1
\* longest text, in tokens, given to the intent classifier on its own
MaxTextLen == 4
\* longest stripped continuation, in characters, the backend is made to give
MaxContLen == 4

(* Program constants *)

MAX_CONTEXT_MESSAGES == 5
MinSuggestions == 1
MaxSuggestions == 5
MaxQuickReplies == 2
MaxQuickOptions == 4
MinReplyLen == 3

-----------------------------------------------------------------------------
(* Sequences *)

Min(a, b) == IF a <= b THEN a ELSE b

\* s[:n]
Take(s, n) == SubSeq(s, 1, Min(n, Len(s)))

\* s[-n:]
LastN(s, n) == SubSeq(s, Len(s) - Min(n, Len(s)) + 1, Len(s))

Range(s) == {s[i] : i \in 1..Len(s)}


-----------------------------------------------------------------------------
(* ReplyIntent and the tables built by __init__ *)

ReplyIntent == {"acknowledge", "agree", "disagree", "question", "answer",
                "thanks", "greeting", "farewell", "suggestion", "general"}

\* the dict literal of lines 33-74: intent -> ordered templates
TemplateTable ==
    [acknowledge |-> <<"Got it, thanks!", "Understood", "Sounds good",
                       "Noted, thank you">>,
     agree       |-> <<"I agree", "That makes sense", "Absolutely",
                       "Good point">>,
     disagree    |-> <<"I have a different view",
                       "Let me share another perspective",
                       "I'm not sure about that">>,
     thanks      |-> <<"Thank you!", "Thanks for your help",
                       "Much appreciated", "Thanks!">>,
     greeting    |-> <<"Hi there!", "Hello!", "Hey!",
                       "Good to hear from you">>,
     farewell    |-> <<"Talk soon!", "Have a great day!", "Take care",
                       "Bye for now">>,
     question    |-> <<"Could you clarify?", "What do you think?",
                       "Any thoughts on this?">>]

\* the dict literal of lines 77-82, in insertion order.  A pattern
\* \b(k1|k2|...)\b is the set of its keywords, each a token sequence;
\* end_mark is the alternative \?$ of the question pattern.
PatternTable ==
    << [intent   |-> "greeting",
        keywords |-> {<<"hi">>, <<"hello">>, <<"hey">>,
                      <<"good", " ", "morning">>,
                      <<"good", " ", "afternoon">>},
        end_mark |-> FALSE],
       [intent   |-> "farewell",
        keywords |-> {<<"bye">>, <<"goodbye">>, <<"see", " ", "you">>,
                      <<"talk", " ", "later">>, <<"take", " ", "care">>},
        end_mark |-> FALSE],
       [intent   |-> "thanks",
        keywords |-> {<<"thank">>, <<"thanks">>, <<"appreciate">>,
                      <<"grateful">>},
        end_mark |-> FALSE],
       [intent   |-> "question",
        keywords |-> {<<"what">>, <<"how">>, <<"why">>, <<"when">>,
                      <<"where">>, <<"who">>, <<"could", " ", "you">>,
                      <<"can", " ", "you">>},
        end_mark |-> TRUE] >>

-----------------------------------------------------------------------------
(* Texts and the regular-expression search of _detect_intent *)

\* tokens that are not made of word characters (\w)
NonWordTokens == {" ", ", ", "!", "?", "."}

IsWord(tok) == tok \notin NonWordTokens

\* str.lower() on one token
LowerToken(tok) ==
    CASE tok = "Hi" -> "hi"
      [] tok = "Thanks" -> "thanks"
      [] OTHER -> tok

\* str.lower()
Lower(text) == [i \in 1..Len(text) |-> LowerToken(text[i])]

\* the keyword kw occurs at position p of text with a word boundary on
\* both sides: a neighbouring word token would continue the same word
KeywordAt(kw, text, p) ==
    /\ p + Len(kw) - 1 <= Len(text)
    /\ \A j \in 1..Len(kw) : text[p + j - 1] = kw[j]
    /\ (p = 1 \/ ~IsWord(text[p - 1]))
    /\ (p + Len(kw) - 1 = Len(text) \/ ~IsWord(text[p + Len(kw)]))

\* re.search(pattern, text)
re_search(pattern, text) ==
    \/ \E kw \in pattern.keywords :
          \E p \in 1..Len(text) : KeywordAt(kw, text, p)
    \/ pattern.end_mark /\ Len(text) > 0 /\ text[Len(text)] = "?"

\* a plausible slip: the rules are tried from the last one to the first
detect_intent_reversed(patterns, text) ==
    LET text_lower == Lower(text)
        hits == {i \in 1..Len(patterns) : re_search(patterns[i], text_lower)}
    IN  IF hits = {} THEN "general"
        ELSE patterns[CHOOSE i \in hits : \A j \in hits : j <= i].intent

\* _detect_intent: the first rule, in table order, whose pattern is found
detect_intent(patterns, text) ==
    LET text_lower == Lower(text)
        hits == {i \in 1..Len(patterns) : re_search(patterns[i], text_lower)}
    IN  IF hits = {} THEN "general"
        ELSE patterns[CHOOSE i \in hits : \A j \in hits : i <= j].intent

-----------------------------------------------------------------------------
(* Confidences: IEEE-754 doubles *)

(* The double d is encoded as 1000 * t + u, where t/10 is the decimal     *)
(* tenth nearest to d and u is the distance of d from the double nearest  *)
(* to t/10, in units of 2^-56.  The encoding preserves order and equality *)
(* of the doubles below.  FloatMinusTenths(b, i) is the double that       *)
(* Python computes for  b/10 - (i * 0.1):  the product i * 0.1 is rounded *)
(* first (3 * 0.1 = 0.30000000000000004), then the difference.            *)
FloatMinusTenths(b, i) ==
    LET u == CASE b = 6 -> <<0, 0, -4, -4, -4, -2, -8, -6, -4>>
               [] b = 7 -> <<0, 0, -4, -8, -4, -4, -10, -8, -6>>
               [] b = 8 -> <<0, 8, 8, 0, 0, 4, -4, -2, 0>>
    IN  1000 * (b - i) + u[i + 1]

\* the doubles 0.0 and 1.0
FloatZero == FloatMinusTenths(8, 8)
FloatOne  == 1000 * 10

\* Field(..., ge=0.0, le=1.0) of ReplySuggestion.confidence
ValidConfidence(c) == FloatZero <= c /\ c <= FloatOne

\* every ReplySuggestion(...) of the sequence passes validation
AllValid(suggs) == \A k \in 1..Len(suggs) : ValidConfidence(suggs[k].confidence)

\* a plausible slip: a step of 0.2 per candidate
ml_confidence_steep(i) == FloatMinusTenths(7, 2 * i)

\* 0.7 - (i * 0.1), line 217
ml_confidence(i) == FloatMinusTenths(7, i)

\* 0.8 - (i * 0.1), line 256
quick_confidence(i) == FloatMinusTenths(8, i)

\* 0.6 - (i * 0.1), line 311
fallback_confidence(i) == FloatMinusTenths(6, i)

-----------------------------------------------------------------------------
(* The model tier: _generate_ml_replies *)

\* where a runtime failure strikes: nowhere, in tokenizer.encode, in
\* model.generate, or while output number `at` (0-based) is decoded
Faults(num) ==
    {[stage |-> "none", at |-> 0], [stage |-> "encode", at |-> 0],
     [stage |-> "generate", at |-> 0]}
    \cup {[stage |-> "decode", at |-> k] : k \in 0..(num - 1)}

\* a plausible slip: a reply of exactly three characters passes
keeps_reply_inclusive(len) == len > 0 /\ len >= MinReplyLen

\* `if reply_text and len(reply_text) > 3`, line 210; len is the length of
\* the stripped continuation
keeps_reply(len) == len > 0 /\ len > MinReplyLen

\* the loop of lines 204-222 over outputs[0 .. upto-1]; outputs[i+1] is the
\* length of the stripped continuation of output i.  The result is the
\* list built so far and whether a ReplySuggestion was rejected.
RECURSIVE ml_loop(_, _)
ml_loop(outputs, upto) ==
    IF upto = 0 THEN [suggestions |-> <<>>, rejected |-> FALSE]
    ELSE LET before == ml_loop(outputs, upto - 1)
             i == upto - 1
             cand == [tier |-> "ml", index |-> i,
                      confidence |-> ml_confidence(i),
                      is_quick_reply |-> FALSE]
         IN  IF before.rejected \/ ~keeps_reply(outputs[upto]) THEN before
             ELSE IF ~ValidConfidence(cand.confidence)
                  THEN [before EXCEPT !.rejected = TRUE]
                  ELSE [before EXCEPT !.suggestions = Append(@, cand)]

\* _generate_ml_replies, lines 172-227: `suggestions` is created before the
\* try block and returned after the except clause, whatever was appended
generate_ml_replies(outputs, fault) ==
    IF fault.stage \in {"encode", "generate"}
    THEN [suggestions |-> <<>>, failure |-> fault.stage,
          invoked |-> fault.stage = "generate", decoded |-> <<>>]
    ELSE LET upto == IF fault.stage = "decode" THEN fault.at ELSE Len(outputs)
             run  == ml_loop(outputs, upto)
         IN  [suggestions |-> run.suggestions,
              failure |-> IF run.rejected THEN "validation" ELSE fault.stage,
              invoked |-> TRUE, decoded |-> SubSeq(outputs, 1, upto)]

-----------------------------------------------------------------------------
(* The template tiers *)

HasTemplates(templates, intent) == intent \in DOMAIN templates

\* a plausible slip: the acknowledge default in the quick-reply step too
quick_lookup_with_default(templates, intent) ==
    IF HasTemplates(templates, intent) THEN templates[intent]
    ELSE templates["acknowledge"]

\* self.quick_reply_templates.get(intent, []), line 247
quick_lookup(templates, intent) ==
    IF HasTemplates(templates, intent) THEN templates[intent] ELSE <<>>

\* a plausible slip: no default in the fallback step
fallback_lookup_no_default(templates, intent) ==
    IF HasTemplates(templates, intent) THEN templates[intent] ELSE <<>>

\* self.quick_reply_templates.get(intent, self.quick_reply_templates[
\* ReplyIntent.ACKNOWLEDGE]), lines 302-304 and 333-335
fallback_lookup(templates, intent) ==
    IF HasTemplates(templates, intent) THEN templates[intent]
    ELSE templates["acknowledge"]

\* _get_quick_replies, lines 243-263: one suggestion for each of the first
\* two templates
get_quick_suggestions(templates, intent) ==
    LET chosen == Take(quick_lookup(templates, intent), MaxQuickReplies)
    IN  [k \in 1..Len(chosen) |->
            [tier |-> "quick", index |-> k - 1, text |-> chosen[k],
             confidence |-> quick_confidence(k - 1), intent |-> intent,
             is_quick_reply |-> TRUE]]

\* _generate_fallback_replies, lines 291-318: one suggestion for each of
\* the first num_suggestions templates
generate_fallback_replies(templates, intent, num_suggestions) ==
    LET chosen == Take(fallback_lookup(templates, intent), num_suggestions)
    IN  [k \in 1..Len(chosen) |->
            [tier |-> "fallback", index |-> k - 1, text |-> chosen[k],
             confidence |-> fallback_confidence(k - 1), intent |-> intent,
             is_quick_reply |-> TRUE]]

-----------------------------------------------------------------------------
(* Ranking *)

\* s with x put after every element whose confidence is at least x's:
\* one step of a stable sort in descending order
RECURSIVE InsertDesc(_, _)
InsertDesc(s, x) ==
    IF s = <<>> THEN <<x>>
    ELSE IF s[Len(s)].confidence >= x.confidence THEN Append(s, x)
    ELSE Append(InsertDesc(SubSeq(s, 1, Len(s) - 1), x), s[Len(s)])

RECURSIVE SortDesc(_)
SortDesc(s) ==
    IF s = <<>> THEN <<>>
    ELSE InsertDesc(SortDesc(SubSeq(s, 1, Len(s) - 1)), s[Len(s)])

\* a plausible slip: reverse=True forgotten
sort_ascending(s) ==
    IF Len(s) <= 1 THEN s
    ELSE LET r == SortDesc(s)
         IN  [k \in 1..Len(r) |-> r[Len(r) + 1 - k]]

\* sorted(suggestions, key=lambda x: x.confidence, reverse=True), line 143:
\* stable, elements of equal confidence keep their order
sort_by_confidence(s) == SortDesc(s)

\* a plausible slip: the slice of line 144 forgotten
limit_none(s, num_suggestions) == s

\* suggestions[: request.num_suggestions], line 144
limit(s, num_suggestions) == Take(s, num_suggestions)

-----------------------------------------------------------------------------
(* Context *)

\* the messages _build_context_string serializes, lines 154-160:
\* messages[-settings.MAX_CONTEXT_MESSAGES:], one "sender: content" each
build_context_string(messages) ==
    LET window == LastN(messages, MAX_CONTEXT_MESSAGES)
    IN  [k \in 1..Len(window) |->
            <<window[k].sender_id, ": ", window[k].content>>]

\* a plausible slip: the summary made of the context window only
summarize_window(messages) ==
    LET window == LastN(messages, MAX_CONTEXT_MESSAGES)
    IN  IF window = <<>> THEN [text |-> "No context available"]
        ELSE [text |-> "Conversation with",
              participants |-> Cardinality({window[k].sender_id : k \in 1..Len(window)}),
              messages |-> Len(window)]

\* _summarize_context, lines 320-328; the two numbers of the f-string
summarize_context(messages) ==
    IF messages = <<>> THEN [text |-> "No context available"]
    ELSE [text |-> "Conversation with",
          participants |-> Cardinality({messages[k].sender_id : k \in 1..Len(messages)}),
          messages |-> Len(messages)]

-----------------------------------------------------------------------------
(* The request handlers *)

\* a plausible slip: the flag is not consulted
use_backend_any_model(init, mdl) == mdl # "None"

\* `if self.initialized and self.model is not None`, line 119
use_backend(init, mdl) == init /\ mdl # "None"

\* generate_replies, lines 105-152, with every local it computes.
\* outputs and fault describe what the backend does if it is called.
generate_replies(init, mdl, templates, patterns, req, outputs, fault) ==
    LET messages        == req.messages
        last_message    == messages[Len(messages)]
        detected_intent == detect_intent(patterns, last_message.content)
        ml    == IF use_backend(init, mdl)
                 THEN generate_ml_replies(outputs, fault)
                 ELSE [suggestions |-> <<>>, failure |-> "none",
                       invoked |-> FALSE, decoded |-> <<>>]
        quick == IF req.include_quick_replies
                 THEN get_quick_suggestions(templates, detected_intent)
                 ELSE <<>>
        gathered == ml.suggestions \o quick
        suggestions ==
            IF gathered = <<>>
            THEN generate_fallback_replies(templates, detected_intent,
                                           req.num_suggestions)
            ELSE gathered
    IN  [ml        |-> ml,
         quick     |-> quick,
         collected |-> suggestions,
         response  |->
            IF AllValid(quick) /\ AllValid(suggestions)
            THEN [kind |-> "ReplyResponse",
                  suggestions |-> limit(sort_by_confidence(suggestions),
                                        req.num_suggestions),
                  context_summary |-> summarize_context(messages)]
            ELSE [kind |-> "ValidationError"]]

\* get_quick_replies, lines 330-340
get_quick_replies(templates, patterns, req) ==
    LET intent == detect_intent(patterns, req.last_message)
        chosen == fallback_lookup(templates, intent)
    IN  [kind |-> "QuickReplyResponse",
         replies |-> Take(chosen, MaxQuickOptions),
         intent |-> intent]

-----------------------------------------------------------------------------
(* Inputs *)

Senders == {"u1", "u2"}

\* last messages: one text per rule of the classifier, and one no rule matches
SampleTexts == {<<"Hi">>, <<"bye">>, <<"thanks">>, <<"what", "?">>, <<"ok">>}

Tokens == {"Hi", "thanks", "bye", "what", "ok", ", ", "!", "?"}

\* every text of at most MaxTextLen tokens
Texts == UNION {[1..n -> Tokens] : n \in 0..MaxTextLen}

\* n messages: the oldest from `first`, the others from `rest`, the last
\* one saying `text`
Conversation(n, first, rest, text) ==
    [k \in 1..n |->
        [content   |-> IF k = n THEN text ELSE <<"ok">>,
         sender_id |-> IF k = 1 THEN first ELSE rest]]

\* ConversationContext.messages holds at least one message
Conversations ==
    {Conversation(n, first, rest, text) :
        n \in 1..(MAX_CONTEXT_MESSAGES + MaxOlder),
        first \in Senders, rest \in Senders, text \in SampleTexts}

\* ReplyRequest: num_suggestions is validated to lie in 1..5
ReplyRequests ==
    [messages : Conversations,
     num_suggestions : MinSuggestions..MaxSuggestions,
     include_quick_replies : BOOLEAN]

\* lengths of a stripped continuation on either side of the length test
ContLens == {MinReplyLen, MinReplyLen + 1}

\* model.generate returns num_return_sequences outputs
Outputs(num) == [1..num -> ContLens]

NoFault == [stage |-> "none", at |-> 0]

None == [kind |-> "None"]

-----------------------------------------------------------------------------
(* The state machine *)

Init ==
    /\ phase = "startup"
    /\ initialized = FALSE
    /\ model = "None"
    /\ tokenizer = "None"
    /\ quick_reply_templates = TemplateTable
    /\ intent_patterns = PatternTable
    /\ init_calls = 0
    /\ op = "idle"
    /\ request = None
    /\ response = None
    /\ generate_invoked = FALSE
    /\ ml_failure = "none"
    /\ ml_suggestions = <<>>
    /\ reply_lengths = <<>>
    /\ quick_replies = <<>>
    /\ collected = <<>>

\* lifespan awaits initialize() before the application serves, main.py
\* lines 17-22.  initialize, lines 84-103: the tokenizer is loaded, then
\* the model, then the pad token is set, then the flag; a failure at
\* `failed_at` leaves what was assigned before it.
Initialize(failed_at) ==
    /\ phase = "startup"
    /\ tokenizer' = IF failed_at = "tokenizer" THEN tokenizer ELSE "loaded"
    /\ model' = IF failed_at \in {"tokenizer", "model"} THEN model ELSE "loaded"
    /\ initialized' = (failed_at = "nothing")
    /\ init_calls' = init_calls + 1
    /\ phase' = "serving"
    /\ UNCHANGED <<quick_reply_templates, intent_patterns, op, request,
                   response, generate_invoked, ml_failure, ml_suggestions,
                   reply_lengths,
                   quick_replies, collected>>

Startup == \E failed_at \in {"nothing", "tokenizer", "model", "pad_token"} :
               Initialize(failed_at)

\* POST /suggest with req, routed once the application serves
Suggest(req, outputs, fault) ==
    /\ phase = "serving"
    /\ op = "idle"
    /\ \E r \in {generate_replies(initialized, model, quick_reply_templates,
                                   intent_patterns, req, outputs, fault)} :
           /\ response' = r.response
           /\ generate_invoked' = r.ml.invoked
           /\ ml_failure' = r.ml.failure
           /\ ml_suggestions' = r.ml.suggestions
           /\ reply_lengths' = r.ml.decoded
           /\ quick_replies' = r.quick
           /\ collected' = r.collected
    /\ request' = req
    /\ op' = "generate_replies"
    /\ UNCHANGED <<phase, service>>

GenerateReplies ==
    /\ phase = "serving"
    /\ op = "idle"
    /\ \E req \in ReplyRequests :
          IF use_backend(initialized, model)
          THEN \E outputs \in Outputs(req.num_suggestions),
                  fault \in Faults(req.num_suggestions) :
                      Suggest(req, outputs, fault)
          ELSE Suggest(req, <<>>, NoFault)

\* POST /quick with the message text
Quick(text) ==
    /\ phase = "serving"
    /\ op = "idle"
    /\ request' = [last_message |-> text]
    /\ response' = get_quick_replies(quick_reply_templates, intent_patterns,
                                     [last_message |-> text])
    /\ op' = "get_quick_replies"
    /\ UNCHANGED <<phase, service, generate_invoked, ml_failure,
                   ml_suggestions, reply_lengths, quick_replies, collected>>

GetQuickReplies ==
    /\ phase = "serving"
    /\ op = "idle"
    /\ \E text \in SampleTexts : Quick(text)

\* the response is sent; the handler's locals are gone
Respond ==
    /\ op # "idle"
    /\ op' = "idle"
    /\ request' = None
    /\ response' = None
    /\ generate_invoked' = FALSE
    /\ ml_failure' = "none"
    /\ ml_suggestions' = <<>>
    /\ reply_lengths' = <<>>
    /\ quick_replies' = <<>>
    /\ collected' = <<>>
    /\ UNCHANGED <<phase, service>>

Next == Startup \/ GenerateReplies \/ GetQuickReplies \/ Respond

Spec == Init /\ [][Next]_vars

\* the classifier on its own: the service after a startup without
\* transformers installed, asked for quick replies to every text
InitDegraded ==
    /\ phase = "serving"
    /\ initialized = FALSE
    /\ model = "None"
    /\ tokenizer = "None"
    /\ quick_reply_templates = TemplateTable
    /\ intent_patterns = PatternTable
    /\ init_calls = 1
    /\ op = "idle"
    /\ request = None
    /\ response = None
    /\ generate_invoked = FALSE
    /\ ml_failure = "none"
    /\ ml_suggestions = <<>>
    /\ reply_lengths = <<>>
    /\ quick_replies = <<>>
    /\ collected = <<>>

ClassifyAny ==
    /\ op = "idle"
    /\ \E text \in Texts : Quick(text)

NextIntent == ClassifyAny \/ Respond

IntentSpec == InitDegraded /\ [][NextIntent]_vars

\* the model tier on its own: the service after a startup that loaded the
\* model, asked about a one-message conversation, the backend giving
\* continuations of every length up to MaxContLen and not failing
InitReady ==
    /\ phase = "serving"
    /\ initialized = TRUE
    /\ model = "loaded"
    /\ tokenizer = "loaded"
    /\ quick_reply_templates = TemplateTable
    /\ intent_patterns = PatternTable
    /\ init_calls = 1
    /\ op = "idle"
    /\ request = None
    /\ response = None
    /\ generate_invoked = FALSE
    /\ ml_failure = "none"
    /\ ml_suggestions = <<>>
    /\ reply_lengths = <<>>
    /\ quick_replies = <<>>
    /\ collected = <<>>

AnyLengths(num) == [1..num -> 0..MaxContLen]

GenerateAnyLengths ==
    /\ op = "idle"
    /\ \E num \in MinSuggestions..MaxSuggestions, quick \in BOOLEAN :
          \E outputs \in AnyLengths(num) :
              Suggest([messages |-> Conversation(1, "u1", "u1", <<"ok">>),
                       num_suggestions |-> num,
                       include_quick_replies |-> quick],
                      outputs, NoFault)

NextBackend == GenerateAnyLengths \/ Respond

BackendSpec == InitReady /\ [][NextBackend]_vars

-----------------------------------------------------------------------------
(* Properties *)

\* a generate_replies call has returned and its response is pending
Suggested == op = "generate_replies"

\* a get_quick_replies call has returned and its response is pending
QuickAnswered == op = "get_quick_replies"

BackendAvailable == use_backend(initialized, model)

\* the intent generate_replies detected for the pending request
DetectedIntent ==
    detect_intent(intent_patterns,
                  request.messages[Len(request.messages)].content)

Descending(suggs) ==
    \A k \in 1..(Len(suggs) - 1) : suggs[k].confidence >= suggs[k + 1].confidence

\* C1: whatever the backend does (absent, working, failing) and whether or
\* not quick replies are included, generate_replies returns a
\* ReplyResponse with at most num_suggestions suggestions.
C1_AtMostRequested ==
    Suggested =>
        /\ response.kind = "ReplyResponse"
        /\ Len(response.suggestions) <= request.num_suggestions

\* more was collected than requested, from a backend that failed midway
C1_Witness ==
    /\ Suggested
    /\ ml_failure = "decode"
    /\ request.include_quick_replies
    /\ Len(collected) > request.num_suggestions
    /\ Len(response.suggestions) = request.num_suggestions

\* C2: without a backend and without quick replies the response is a
\* non-empty list of template suggestions, all flagged is_quick_reply, in
\* descending confidence order, whatever the detected intent.
C2_FallbackTotality ==
    (Suggested /\ ~BackendAvailable /\ ~request.include_quick_replies) =>
        /\ response.kind = "ReplyResponse"
        /\ Len(response.suggestions) >= 1
        /\ \A k \in 1..Len(response.suggestions) :
              /\ response.suggestions[k].tier = "fallback"
              /\ response.suggestions[k].is_quick_reply
              /\ \E i \in DOMAIN quick_reply_templates :
                    response.suggestions[k].text \in Range(quick_reply_templates[i])
        /\ Descending(response.suggestions)

\* the fallback served an intent that has no template set of its own
C2_Witness ==
    /\ Suggested
    /\ ~BackendAvailable
    /\ ~request.include_quick_replies
    /\ DetectedIntent = "general"
    /\ Len(response.suggestions) = 4
    /\ response.suggestions[1].text = "Got it, thanks!"

\* C3: a response is shorter than requested only if the backend gave fewer
\* than num_suggestions candidates and the detected intent's template set
\* (acknowledge when it has none) has fewer than num_suggestions entries.
C3_ShortOnlyIfEveryTierShort ==
    (Suggested /\ response.kind = "ReplyResponse"
       /\ Len(response.suggestions) < request.num_suggestions) =>
        /\ Len(ml_suggestions) < request.num_suggestions
        /\ Len(fallback_lookup(quick_reply_templates, DetectedIntent))
              < request.num_suggestions

\* C4: a failure caught in _generate_ml_replies leaves the backend tier
\* with no candidates at all, and generate_replies still answers.
C4_FailureLeavesNoCandidates ==
    (Suggested /\ ml_failure # "none") =>
        /\ ml_suggestions = <<>>
        /\ response.kind = "ReplyResponse"

\* C5: every suggestion any tier builds has a confidence in [0, 1], so no
\* ReplySuggestion is rejected by the bound on confidence.
C5_ConfidenceInUnitInterval ==
    Suggested =>
        /\ response.kind = "ReplyResponse"
        /\ ml_failure # "validation"
        /\ AllValid(ml_suggestions)
        /\ AllValid(quick_replies)
        /\ AllValid(collected)
        /\ AllValid(response.suggestions)

\* the backend gave five candidates and two quick replies were added
C5_Witness ==
    /\ Suggested
    /\ Len(ml_suggestions) = MaxSuggestions
    /\ Len(quick_replies) = MaxQuickReplies
    /\ ml_suggestions[MaxSuggestions].confidence = ml_confidence(4)

\* C6: initialize has run, once, before any request is handled; a request
\* never changes the flag, the model and tokenizer references, the two
\* tables or the number of initialize calls; and without the flag the
\* model is never called.
C6_AvailabilityFixedAtStartup ==
    /\ [](op # "idle" => (phase = "serving" /\ init_calls = 1))
    /\ [](~initialized => ~generate_invoked)
    /\ [][phase = "serving" => UNCHANGED service]_vars

\* a request handled after a startup that loaded the model and then failed
C6_Witness ==
    /\ Suggested
    /\ ~initialized
    /\ model = "loaded"
    /\ init_calls = 1

\* the rule of the classifier that detects `intent`
PatternOf(intent) ==
    CHOOSE pat \in Range(intent_patterns) : pat.intent = intent

\* the precedence the classifier is to follow
RuleOrder == <<"greeting", "farewell", "thanks", "question">>

\* C7: the classifier answers every text, the empty one too, with the
\* intent of the first rule, in the order greeting, farewell, thanks,
\* question, whose pattern occurs in the lower-cased text, and with general
\* when none occurs; "Hi, thanks!" is a greeting.
C7_FirstMatchingRule ==
    QuickAnswered =>
        LET text == Lower(request.last_message)
            hit(k) == re_search(PatternOf(RuleOrder[k]), text)
        IN  /\ response.intent \in
                  {"greeting", "farewell", "thanks", "question", "general"}
            /\ \A k \in 1..Len(RuleOrder) :
                  (response.intent = RuleOrder[k]) <=>
                      (hit(k) /\ \A j \in 1..(k - 1) : ~hit(j))
            /\ (response.intent = "general") <=>
                  (\A k \in 1..Len(RuleOrder) : ~hit(k))
            /\ (request.last_message = <<>> => response.intent = "general")
            /\ (request.last_message = <<"Hi", ", ", "thanks", "!">>
                  => response.intent = "greeting")

\* "Hi, thanks!" matches the greeting rule and the thanks rule
C7_Witness ==
    /\ QuickAnswered
    /\ request.last_message = <<"Hi", ", ", "thanks", "!">>
    /\ re_search(PatternOf("thanks"), Lower(request.last_message))
    /\ response.intent = "greeting"

\* C8 as stated: every path that fetches templates (get_quick_replies, the
\* quick-reply step and the fallback step of generate_replies) uses the
\* acknowledge set for an intent without templates, so each of them yields
\* templates; get_quick_replies returns 1 to 4 replies.
C8_EveryLookupFallsBack ==
    /\ QuickAnswered =>
          (Len(response.replies) >= 1 /\ Len(response.replies) <= MaxQuickOptions)
    /\ (Suggested /\ request.include_quick_replies) =>
          /\ quick_replies # <<>>
          /\ ~HasTemplates(quick_reply_templates, DetectedIntent) =>
                quick_replies[1].text = quick_reply_templates["acknowledge"][1]
    /\ (Suggested /\ ml_suggestions = <<>> /\ quick_replies = <<>>) =>
          collected # <<>>

\* C8 amended: get_quick_replies and the fallback step of generate_replies
\* use the acknowledge set for an intent without templates and so never
\* come back empty, get_quick_replies returning 1 to 4 replies; the
\* quick-reply step of generate_replies has no such default and adds
\* nothing for such an intent.
C8_LookupsWithAndWithoutDefault ==
    /\ QuickAnswered =>
          /\ Len(response.replies) >= 1
          /\ Len(response.replies) <= MaxQuickOptions
          /\ ~HasTemplates(quick_reply_templates, response.intent) =>
                response.replies = Take(quick_reply_templates["acknowledge"],
                                        MaxQuickOptions)
    /\ (Suggested /\ request.include_quick_replies) =>
          (quick_replies = <<>>
              <=> ~HasTemplates(quick_reply_templates, DetectedIntent))
    /\ (Suggested /\ ml_suggestions = <<>> /\ quick_replies = <<>>) =>
          /\ collected # <<>>
          /\ \A k \in 1..Len(collected) : collected[k].tier = "fallback"
          /\ ~HasTemplates(quick_reply_templates, DetectedIntent) =>
                collected[1].text = quick_reply_templates["acknowledge"][1]

\* quick replies were asked for an intent without templates: the step
\* added nothing and the fallback step used the acknowledge set
C8_Witness ==
    /\ Suggested
    /\ request.include_quick_replies
    /\ DetectedIntent = "general"
    /\ quick_replies = <<>>
    /\ collected # <<>>
    /\ collected[1].text = "Got it, thanks!"

SenderIds(messages) == {messages[k].sender_id : k \in 1..Len(messages)}

\* C9 as stated: the summary counts the messages, and the distinct sender
\* identifiers, of the context window, the last MAX_CONTEXT_MESSAGES
\* messages that make the context string.
C9_SummaryOfWindow ==
    Suggested =>
        LET window == LastN(request.messages, MAX_CONTEXT_MESSAGES)
        IN  /\ response.context_summary.messages
                  = Len(build_context_string(request.messages))
            /\ response.context_summary.participants
                  = Cardinality(SenderIds(window))

\* C9 amended: the summary counts all the messages of the request, and the
\* distinct sender identifiers among all of them, also when the request
\* has more than MAX_CONTEXT_MESSAGES messages.
C9_SummaryOfAllMessages ==
    Suggested =>
        /\ response.context_summary.messages = Len(request.messages)
        /\ response.context_summary.participants
              = Cardinality(SenderIds(request.messages))

\* more messages than the window holds, the oldest from a sender who
\* says nothing inside the window, and that sender is counted
C9_Witness ==
    /\ Suggested
    /\ Len(request.messages) > MAX_CONTEXT_MESSAGES
    /\ request.messages[1].sender_id
          \notin SenderIds(LastN(request.messages, MAX_CONTEXT_MESSAGES))
    /\ response.context_summary.participants = 2
    /\ response.context_summary.messages = MAX_CONTEXT_MESSAGES + 1

SameSuggestion(a, b) == a.tier = b.tier /\ a.index = b.index

\* where suggestion e was inserted in the collected list
InsertedAt(e) ==
    CHOOSE j \in 1..Len(collected) : SameSuggestion(collected[j], e)

\* suggestion a is ranked before b: higher confidence, or the same
\* confidence and inserted earlier
RankedBefore(a, pa, b, pb) ==
    \/ a.confidence > b.confidence
    \/ a.confidence = b.confidence /\ pa < pb

\* C10: the response is the collected list sorted by descending
\* confidence, suggestions of equal confidence in insertion order (model
\* candidates are inserted before quick replies), cut to the first
\* num_suggestions entries.
C10_StableDescendingPrefix ==
    (Suggested /\ response.kind = "ReplyResponse") =>
        LET out == response.suggestions
            n   == Len(out)
            kept == {InsertedAt(out[k]) : k \in 1..n}
        IN  /\ n = Min(request.num_suggestions, Len(collected))
            /\ \A k \in 1..n :
                  /\ \E j \in 1..Len(collected) : SameSuggestion(collected[j], out[k])
                  /\ out[k].confidence = collected[InsertedAt(out[k])].confidence
            /\ Descending(out)
            /\ \A k \in 1..n : \A l \in (k + 1)..n :
                  RankedBefore(out[k], InsertedAt(out[k]), out[l], InsertedAt(out[l]))
            /\ \A j \in 1..Len(collected) : j \notin kept =>
                  \A k \in 1..n :
                      RankedBefore(out[k], InsertedAt(out[k]), collected[j], j)
            /\ \A j \in 1..Len(ml_suggestions) : \A q \in 1..Len(quick_replies) :
                  InsertedAt(ml_suggestions[j]) < InsertedAt(quick_replies[q])

\* model candidates and quick replies ranked together: both quick replies
\* come first, then the first model candidate, and one suggestion is cut
C10_Witness ==
    /\ Suggested
    /\ Len(ml_suggestions) >= 2
    /\ Len(quick_replies) = 2
    /\ request.num_suggestions = 3
    /\ response.suggestions[1].tier = "quick"
    /\ response.suggestions[2].tier = "quick"
    /\ response.suggestions[3].tier = "ml"
    /\ response.suggestions[3].index = 0

\* the model tier kept the continuation decoded from output i (0-based)
KeptReply(i) ==
    \E j \in 1..Len(ml_suggestions) : ml_suggestions[j].index = i

\* C11 as stated: a decoded continuation is dropped exactly when, stripped,
\* it is empty or shorter than 3 characters; one of exactly 3 characters
\* becomes a suggestion.
C11_DroppedIffShorterThanThree ==
    Suggested =>
        \A k \in 1..Len(reply_lengths) :
            ~KeptReply(k - 1) <=> (reply_lengths[k] = 0 \/ reply_lengths[k] < 3)

\* C11 amended: a decoded continuation is dropped exactly when, stripped,
\* it has at most 3 characters (the empty one included); one of exactly 3
\* characters is dropped, one of 4 becomes a suggestion.
C11_DroppedIffAtMostThree ==
    Suggested =>
        \A k \in 1..Len(reply_lengths) :
            /\ ~KeptReply(k - 1) <=> reply_lengths[k] <= 3
            /\ reply_lengths[k] = 3 => ~KeptReply(k - 1)
            /\ reply_lengths[k] = 4 => KeptReply(k - 1)

\* continuations of 0, 2, 3 and 4 characters were decoded: only the last
\* one became a suggestion
C11_Witness ==
    /\ Suggested
    /\ reply_lengths = <<0, 2, 3, 4>>
    /\ Len(ml_suggestions) = 1
    /\ ml_suggestions[1].index = 3

=============================================================================
